---- MODULE Spec2Model ----
(***************************************************************************)
(* Model of crypto_app.py: a Streamlit script that is re-run from top to   *)
(* bottom on every auto-refresh tick and on every change of the coin       *)
(* selector.  Each run fetches the market chart of the selected coin       *)
(* through a memoized fetcher (st.cache_data, ttl = 600 s), reshapes it    *)
(* with process_data and renders metrics and three charts, a warning, or   *)
(* an error banner.                                                        *)
(*                                                                         *)
(* Library behaviour the script relies on (pandas 2.x, requests >= 2.27,   *)
(* streamlit >= 1.18):                                                     *)
(*  - st.cache_data memoizes every value the function RETURNS, None        *)
(*    included, keyed by the call's arguments, for ttl seconds; only a     *)
(*    raised exception is not stored.                                      *)
(*  - response.json() raises requests.exceptions.JSONDecodeError, which is *)
(*    a RequestException.                                                  *)
(*  - a Series with a DatetimeIndex indexed by an integer is read by       *)
(*    position; position -2 of a one-element Series raises IndexError.     *)
(*  - assigning a non-empty list as a column of a frame that has no rows   *)
(*    gives the frame the list's index, the other columns being NaN.       *)
(*  - a rerun requested while the script runs stops the script at its next *)
(*    st.* call with an exception that "except RequestException" does not  *)
(*    catch; a function that raises leaves nothing in the memo.            *)
(* Numbers are modelled as integers (prices and volumes in whole units,    *)
(* times in seconds, timestamps in epoch milliseconds); a percentage is    *)
(* modelled by the two decimals that ":.2f" shows of it.                   *)
(* The model follows one browser session.                                  *)
(***************************************************************************)
EXTENDS Integers, Sequences, FiniteSets, TLC

VARIABLES
    now,                 \* wall clock, seconds since the session started
    count,               \* st_autorefresh's refresh counter (line 9)
    selected_coin_name,  \* the selectbox's value (line 73)
    cache,               \* st.cache_data's entries for fetch_crypto_data
    net_log,             \* every requests.get that returned, in order
    selects,             \* number of selector changes made so far
    pending,             \* the run blocked in requests.get, if any
    rerun_requested,     \* an event arrived while that run was blocked
    ui,                  \* what the last completed run did and rendered
    sample,              \* single pass: the response the network gives
    stage,               \* single pass: "request", "blocked", "fetched",
                         \*   "processed", then "rendered" or "interrupted"
    fetched,             \* single pass: what fetch_crypto_data did with sample
    df,                  \* single pass: process_data of the fetched value
    view                 \* single pass: what the run has put on the page

vars == <<now, count, selected_coin_name, cache, net_log, selects, pending,
          rerun_requested, ui, sample, stage, fetched, df, view>>

appVars  == <<now, count, selected_coin_name, selects, pending,
              rerun_requested, ui>>
passVars == <<sample, stage, fetched, df, view>>

----------------------------------------------------------------------------
(* Program constants *)

\* st_autorefresh(interval=15*1000): one rerun every 15 seconds
REFRESH_INTERVAL == 15

\* @st.cache_data(ttl=600)
TTL == 600

\* DAYS = 60
DAYS == 60

\* one day in milliseconds (pd.to_datetime(..., unit='ms'))
MS_PER_DAY == 86400000

(* Bounds of the model *)

\* timer ticks explored: the TTL is 40 ticks long
MaxTicks == 41

\* selector changes the user makes in one session
MaxSelects == 1

\* the user changes the selector this many seconds before a tick, at most
MaxDelay == 1

\* seconds requests.get takes, at most
MaxLatency == 1

\* entries of a payload's prices / total_volumes list
MaxRows == 3

----------------------------------------------------------------------------
(* The coin selector *)

\* the dict literal of lines 56-72, in source order ("XRP" is written twice)
COIN_ITEMS ==
    << <<"BTC", "bitcoin">>, <<"ETH", "ethereum">>, <<"DOGE", "dogecoin">>,
       <<"XRP", "ripple">>, <<"XRP", "ripple">>, <<"TETH", "tether">>,
       <<"BNB", "binancecoin">>, <<"SOL", "solana">>, <<"USDC", "usd-coin">>,
       <<"STETH", "staked-ether">>, <<"TRON", "tron">>, <<"CARD", "cardano">>,
       <<"WSTE", "wrapped-steth">>, <<"CHAI", "chainlink">>,
       <<"PI", "pi-network">> >>

\* a dict display keeps, for a repeated key, the last value written
COIN_MAP ==
    [k \in {COIN_ITEMS[i][1] : i \in DOMAIN COIN_ITEMS} |->
        COIN_ITEMS[CHOOSE i \in DOMAIN COIN_ITEMS :
                      /\ COIN_ITEMS[i][1] = k
                      /\ \A j \in DOMAIN COIN_ITEMS :
                            COIN_ITEMS[j][1] = k => j <= i][2]]

\* list(COIN_MAP.keys()): keys in order of first insertion
RECURSIVE KeysOf(_)
KeysOf(items) ==
    IF items = <<>> THEN <<>>
    ELSE LET init == KeysOf(SubSeq(items, 1, Len(items) - 1))
             k    == items[Len(items)][1]
         IN  IF \E i \in DOMAIN init : init[i] = k THEN init
             ELSE Append(init, k)

options == KeysOf(COIN_ITEMS)

\* index=0
default_index == 0

\* selected_coin_id = COIN_MAP[selected_coin_name], passed with DAYS
fetch_args_ticker(name) == <<name, DAYS>>

fetch_args(name) == <<COIN_MAP[name], DAYS>>

----------------------------------------------------------------------------
(* Raw market payloads *)

\* fetch_crypto_data's "return None"
None == [none |-> TRUE, keys |-> {}, prices |-> <<>>, total_volumes |-> <<>>]

\* a parsed JSON object: the keys it has, and the lists under the two keys
\* the script reads (<<>> under a key it lacks)
Payload(ks, ps, vs) ==
    [none |-> FALSE, keys |-> ks,
     prices        |-> IF "prices" \in ks THEN ps ELSE <<>>,
     total_volumes |-> IF "total_volumes" \in ks THEN vs ELSE <<>>]

\* Python truthiness of the fetcher's result: None and {} are falsy
Truthy(raw) == ~raw.none /\ raw.keys # {}

----------------------------------------------------------------------------
(* process_data *)

\* a number in a frame's cell, and float NaN
Num(v) == [nan |-> FALSE, v |-> v]
NaN    == [nan |-> TRUE, v |-> 0]

\* pd.to_datetime(cell, unit='ms'): calendar day since the epoch and the
\* millisecond of that day; NaN becomes NaT
to_datetime(cell) ==
    IF cell.nan THEN [nat |-> TRUE, day |-> 0, ms |-> 0]
    ELSE [nat |-> FALSE, day |-> cell.v \div MS_PER_DAY,
          ms |-> cell.v % MS_PER_DAY]

EmptyFrame == [exc |-> "none", rows |-> <<>>]

\* the rows of a frame built from n prices and n volumes, put in ascending
\* timestamp order
Rows_sorted(prices, vol) ==
    LET n == Len(prices)
        rank(i) == Cardinality({j \in 1..n :
                        \/ prices[j][1] < prices[i][1]
                        \/ (prices[j][1] = prices[i][1] /\ j < i)}) + 1
        at(r)   == CHOOSE i \in 1..n : rank(i) = r
    IN  [r \in 1..n |->
            [date      |-> to_datetime(Num(prices[at(r)][1])),
             timestamp |-> Num(prices[at(r)][1]),
             price     |-> Num(prices[at(r)][2]),
             volume    |-> vol[r]]]

\* lines 46-49 for aligned lists: row i from prices[i] and vol[i]
Rows(prices, vol) ==
    [i \in DOMAIN prices |->
        [date      |-> to_datetime(Num(prices[i][1])),
         timestamp |-> Num(prices[i][1]),
         price     |-> Num(prices[i][2]),
         volume    |-> vol[i]]]

\* the frame of lines 46-49 for a payload that has both keys
BuildFrame(prices, volumes) ==
    LET vol == [i \in DOMAIN volumes |-> volumes[i][2]]
    IN  IF Len(prices) = 0 /\ Len(vol) > 0
        THEN \* a frame without rows takes the index of the assigned list
             [exc  |-> "none",
              rows |-> [i \in DOMAIN vol |->
                         [date      |-> to_datetime(NaN),
                          timestamp |-> NaN,
                          price     |-> NaN,
                          volume    |-> vol[i]]]]
        ELSE IF Len(vol) # Len(prices)
        THEN \* "Length of values does not match length of index"
             [exc |-> "ValueError", rows |-> <<>>]
        ELSE [exc |-> "none", rows |-> Rows(prices, vol)]

\* process_data without its first two lines
process_data_unguarded(raw_data) ==
    IF "prices" \notin raw_data.keys
    THEN [exc |-> IF raw_data.none THEN "TypeError" ELSE "KeyError",
          rows |-> <<>>]
    ELSE IF "total_volumes" \notin raw_data.keys
    THEN [exc |-> "KeyError", rows |-> <<>>]
    ELSE BuildFrame(raw_data.prices, raw_data.total_volumes)

process_data(raw_data) ==
    IF ~Truthy(raw_data) THEN EmptyFrame
    ELSE IF "prices" \notin raw_data.keys
    THEN [exc |-> "KeyError", rows |-> <<>>]
    ELSE IF "total_volumes" \notin raw_data.keys
    THEN [exc |-> "KeyError", rows |-> <<>>]
    ELSE BuildFrame(raw_data.prices, raw_data.total_volumes)

----------------------------------------------------------------------------
(* Metrics (lines 93-111) *)

Abs(x) == IF x < 0 THEN -x ELSE x

(* float64 arithmetic on small integers, computed exactly.  A natural    *)
(* number beyond 32 bits is a little-endian sequence of limbs below LIMB. *)
LIMB == 2^15

\* x * m + carry, for 0 <= m, carry < LIMB
RECURSIVE MulSmall(_, _, _)
MulSmall(x, m, carry) ==
    IF x = <<>> THEN (IF carry = 0 THEN <<>> ELSE <<carry>>)
    ELSE LET v == x[1] * m + carry
         IN  <<v % LIMB>> \o MulSmall(Tail(x), m, v \div LIMB)

\* x * 2^n: whole limbs of zeros below, the rest by multiplication
ShiftLeft(x, n) ==
    [i \in 1..(n \div 15) |-> 0] \o MulSmall(x, 2^(n % 15), 0)

\* quotient and remainder of x by d, for 0 < d < LIMB, from the top limb
\* down; rem is the remainder carried in
RECURSIVE DivSmall(_, _, _)
DivSmall(x, d, rem) ==
    IF x = <<>> THEN [quot |-> <<>>, rem |-> rem]
    ELSE LET n    == Len(x)
             v    == rem * LIMB + x[n]
             rest == DivSmall(SubSeq(x, 1, n - 1), d, v % d)
         IN  [quot |-> rest.quot \o <<v \div d>>, rem |-> rest.rem]

\* limb i of x, absent limbs being zero
LimbAt(x, i) == IF i <= Len(x) THEN x[i] ELSE 0

\* -1, 0 or 1 as x is below, equal to or above y: the highest limb in
\* which they differ decides
Compare(x, y) ==
    LET n    == IF Len(x) > Len(y) THEN Len(x) ELSE Len(y)
        diff == {i \in 1..n : LimbAt(x, i) # LimbAt(y, i)}
        top  == CHOOSE i \in diff : \A j \in diff : j <= i
    IN  IF diff = {} THEN 0
        ELSE IF LimbAt(x, top) < LimbAt(y, top) THEN -1 ELSE 1

IsOdd(x) == x # <<>> /\ x[1] % 2 = 1

\* the quotient x / d rounded to the nearest integer, ties to even: the
\* rounding of every float64 operation
RoundedQuotient(x, d) ==
    LET qr == DivSmall(x, d, 0)
    IN  IF 2 * qr.rem > d \/ (2 * qr.rem = d /\ IsOdd(qr.quot))
        THEN MulSmall(qr.quot, 1, 1)
        ELSE qr.quot

\* the exponent t with 1 <= a * 2^t / p < 2, for a, p > 0
RECURSIVE Exponent(_, _, _)
Exponent(a, p, t) ==
    IF a * 2 <= p THEN Exponent(a * 2, p, t + 1)
    ELSE IF a < p THEN t + 1
    ELSE IF a >= 2 * p THEN Exponent(a, p * 2, t - 1)
    ELSE t

\* how the double (a / p) * 100 lies to the decimal tie (2q + 1) / 200,
\* for a, p > 0: -1 below, 0 on it, 1 above.  a / p is rounded to 53
\* significant bits, then its product with 100 is.
DoubleAgainstTie(a, p, q) ==
    LET s        == Exponent(a, p, 0) + 52
        quotient == RoundedQuotient(ShiftLeft(<<a>>, s), p)
        exact    == MulSmall(quotient, 100, 0)
        k        == IF Compare(exact, ShiftLeft(<<1>>, 59)) < 0 THEN 6 ELSE 7
        product  == RoundedQuotient(exact, 2^k)
    IN  Compare(ShiftLeft(MulSmall(product, 200, 0), k),
                ShiftLeft(MulSmall(<<1>>, 2 * q + 1, 0), s))

\* the two decimals ":.2f" shows of the double (c / p) * 100, in hundredths,
\* for p > 0.  ":.2f" rounds the double's exact value half to even.  Off a
\* decimal tie x.xx5 the double rounds as the quotient does; at a tie the
\* double lies below, on or above it as its own binary rounding fell.
ShownHundredths(c, p) ==
    LET a   == Abs(c) * 10000
        q   == a \div p
        r   == a % p
        mag == IF 2 * r < p THEN q
               ELSE IF 2 * r > p THEN q + 1
               ELSE LET side == DoubleAgainstTie(Abs(c), p, q)
                    IN  IF side < 0 THEN q
                        ELSE IF side > 0 THEN q + 1
                        ELSE IF q % 2 = 0 THEN q ELSE q + 1
    IN  IF c < 0 THEN -mag ELSE mag

\* price_change_pct = (price_change / prev_price) * 100 on float64 cells,
\* as line 102 shows it; a division by zero gives inf or nan and does not
\* raise; NaN is absorbing
Percent(price_change, prev_price) ==
    IF price_change.nan \/ prev_price.nan
    THEN [cls |-> "nan", hundredths |-> 0]
    ELSE IF prev_price.v = 0
    THEN [cls |-> IF price_change.v > 0 THEN "inf"
                  ELSE IF price_change.v < 0 THEN "-inf" ELSE "nan",
          hundredths |-> 0]
    ELSE IF prev_price.v > 0
    THEN [cls |-> "finite",
          hundredths |-> ShownHundredths(price_change.v, prev_price.v)]
    ELSE [cls |-> "finite",
          hundredths |-> ShownHundredths(-price_change.v, -prev_price.v)]

\* price_change = latest_price - prev_price, NaN absorbing
Minus(a, b) == IF a.nan \/ b.nan THEN NaN ELSE Num(a.v - b.v)

NoMetrics ==
    [shown |-> FALSE, latest_price |-> Num(0), prev_price |-> Num(0),
     price_change |-> Num(0),
     price_change_pct |-> [cls |-> "nan", hundredths |-> 0],
     volume |-> 0, points |-> 0]

\* df['price'][-2] read as the first row
prev_price_first_row(rows) == rows[1].price

\* prev_price = df['price'][-2]
prev_price_of(rows) == rows[Len(rows) - 1].price

Metrics(rows) ==
    LET latest_price == rows[Len(rows)].price
        prev_price   == prev_price_of(rows)
        price_change == Minus(latest_price, prev_price)
    IN  [shown |-> TRUE,
         latest_price |-> latest_price,
         prev_price   |-> prev_price,
         price_change |-> price_change,
         price_change_pct |-> Percent(price_change, prev_price),
         volume |-> rows[Len(rows)].volume,
         points |-> Len(rows)]

----------------------------------------------------------------------------
(* What a run puts on the page *)

\* the messages of the two st.error calls
ERR_FETCHING == "Error fetching data"
ERR_FAILED   == "Failed to fetch data from the API"

\* exc: the exception that ended the run, if any; info_notices: st.info
\* boxes; error_banners: the st.error messages in page order
Rendering(exc, rows, reached, metrics, charts, warnings, errors, infos) ==
    [exc |-> exc, rows |-> rows, metrics_reached |-> reached,
     metrics |-> metrics, charts |-> charts,
     warning_banners |-> warnings, error_banners |-> errors,
     info_notices |-> infos]

\* if not df.empty
MetricsGuard(rows) == Len(rows) > 0

\* nothing rendered yet
Blank == Rendering("none", 0, FALSE, NoMetrics, 0, 0, <<>>, 0)

\* line 87: the else branch is taken for a falsy raw_data
FetchFailedGuard(raw_data) == ~Truthy(raw_data)

\* lines 87-178: what the main logic adds to the page for raw_data
MainLogic(raw_data) ==
    IF ~FetchFailedGuard(raw_data)
    THEN LET frame == process_data(raw_data)
             n     == Len(frame.rows)
         IN  IF frame.exc # "none"
             THEN Rendering(frame.exc, 0, FALSE, NoMetrics, 0, 0, <<>>, 0)
             ELSE IF MetricsGuard(frame.rows)
             THEN IF n < 2
                  THEN \* df['price'][-2] on a one-row frame
                       Rendering("IndexError", n, TRUE, NoMetrics, 0, 0,
                                 <<>>, 0)
                  ELSE Rendering("none", n, TRUE, Metrics(frame.rows),
                                 3, 0, <<>>, 0)
             ELSE Rendering("none", n, FALSE, NoMetrics, 0, 1, <<>>, 0)
    ELSE Rendering("none", 0, FALSE, NoMetrics, 0, 0, <<ERR_FAILED>>, 0)

----------------------------------------------------------------------------
(* fetch_crypto_data: the network call and its exception handling *)

\* what requests.get(url) meets: no connection, or a status and a body that
\* parses as JSON or does not
Response(connected, status, parses, body) ==
    [connected |-> connected, status |-> status, parses |-> parses,
     body |-> body]

\* the function's outcome: the exception it lets out or the value it
\* returns, and what it wrote to the page (st.info of line 30, st.error of
\* line 38)
Outcome(exc, value, errors) ==
    [exc |-> exc, value |-> value, info_notices |-> 1,
     error_banners |-> errors]

\* lines 32-39 with a client whose JSON error is a plain ValueError: an
\* unparsable body escapes the handler
fetch_result_json_escapes(resp) ==
    IF ~resp.connected THEN Outcome("none", None, <<ERR_FETCHING>>)
    ELSE IF resp.status >= 400 /\ resp.status < 600
    THEN Outcome("none", None, <<ERR_FETCHING>>)
    ELSE IF ~resp.parses THEN Outcome("JSONDecodeError", None, <<>>)
    ELSE Outcome("none", resp.body, <<>>)

\* lines 30-39: every RequestException (ConnectionError, the HTTPError of
\* raise_for_status for a 4xx/5xx status, the JSONDecodeError of
\* response.json()) is caught, reported with st.error, and None returned
fetch_result(resp) ==
    IF ~resp.connected THEN Outcome("none", None, <<ERR_FETCHING>>)
    ELSE IF resp.status >= 400 /\ resp.status < 600
    THEN Outcome("none", None, <<ERR_FETCHING>>)
    ELSE IF ~resp.parses THEN Outcome("none", None, <<ERR_FETCHING>>)
    ELSE Outcome("none", resp.body, <<>>)

\* the page after the fetcher alone
FetcherPage(fr) ==
    Rendering(fr.exc, 0, FALSE, NoMetrics, 0, 0, fr.error_banners,
              fr.info_notices)

\* lines 85-178: the page of a whole run whose fetcher did fr (a memo hit
\* replays what the fetcher wrote); an exception out of the fetcher ends
\* the run
ScriptPass(fr) ==
    IF fr.exc # "none" THEN FetcherPage(fr)
    ELSE LET main == MainLogic(fr.value)
         IN  [main EXCEPT !.info_notices = fr.info_notices,
                          !.error_banners = fr.error_banners \o @]

----------------------------------------------------------------------------
(* st.cache_data(ttl=600): the memo of fetch_crypto_data *)

\* the ttl taken in milliseconds against a clock in seconds
Live_ttl_in_ms(e, t) == (t - e.stored_at) * 1000 < TTL

\* an entry is served while its age is below the ttl
Live(e, t) == t - e.stored_at < TTL

\* the memo keyed by days alone
Lookup_by_days(mem, args, t) ==
    {e \in mem : e.key[2] = args[2] /\ Live(e, t)}

\* the entry of memo mem a call with these arguments at time t is served
\* from, if any
Lookup(mem, args, t) == {e \in mem : e.key = args /\ Live(e, t)}

\* a returned value is stored, None as any other, with what the function
\* wrote to the page, stamped with the time t of the return; storing drops
\* the key's old entry and the expired entries
Store(mem, args, fr, t) ==
    {e \in mem : e.key # args /\ Live(e, t)}
        \cup {[key |-> args, value |-> fr.value, stored_at |-> t,
               info_notices |-> fr.info_notices,
               error_banners |-> fr.error_banners]}

\* a hit replays the stored value and page elements
Replay(e) ==
    [exc |-> "none", value |-> e.value, info_notices |-> e.info_notices,
     error_banners |-> e.error_banners]

\* one requests.get of line 33 and what became of its result
Get(args, sent_at, at, value, stored) ==
    [coin_id |-> args[1], days |-> args[2], sent_at |-> sent_at, at |-> at,
     value |-> value, stored |-> stored]

----------------------------------------------------------------------------
(* Runs of the script in a session (lines 9-183) *)

NotRun ==
    [ran |-> FALSE, ticker |-> "", called |-> <<"", 0>>,
     network_calls |-> 0, raw_data |-> None, served_key |-> <<"", 0>>,
     fetched_at |-> 0, started_at |-> 0, finished_at |-> 0, view |-> Blank]

\* a run that went through to its end
Completed(name, args, calls, key, fr, stamp, started, finished, page) ==
    [ran |-> TRUE, ticker |-> name, called |-> args,
     network_calls |-> calls, raw_data |-> fr.value, served_key |-> key,
     fetched_at |-> stamp, started_at |-> started, finished_at |-> finished,
     view |-> page]

NoPending ==
    [active |-> FALSE, ticker |-> "", args |-> <<"", 0>>, sent_at |-> 0]

\* the responses the provider gives in session runs
TwoRows ==
    Payload({"prices", "market_caps", "total_volumes"},
            << <<1500, 100>>, <<MS_PER_DAY + 1500, 110>> >>,
            << <<1500, 5>>, <<MS_PER_DAY + 1500, 7>> >>)

SessionResponses ==
    { Response(FALSE, 0, FALSE, None),
      Response(TRUE, 500, FALSE, None),
      Response(TRUE, 200, TRUE, TwoRows) }

\* the time the next auto-refresh tick is due
TickDue == (count + 1) * REFRESH_INTERVAL

Min(a, b) == IF a < b THEN a ELSE b

\* the browser has loaded the page
Started == pending.active \/ net_log # <<>>

\* a run begins at time t with the selector at name, memo mem and the GETs
\* of log behind it: the memoized call of line 85 either hits, and the run
\* goes through to its end at once, or misses and blocks in requests.get
StartRun(mem, log, name, t) ==
    LET args == fetch_args(name)
        hits == Lookup(mem, args, t)
    IN  /\ cache' = mem
        /\ net_log' = log
        /\ rerun_requested' = FALSE
        /\ IF hits # {}
           THEN LET e == CHOOSE e \in hits : TRUE
                IN  /\ pending' = NoPending
                    /\ ui' = Completed(name, args, 0, e.key, Replay(e),
                                        e.stored_at, t, t,
                                        ScriptPass(Replay(e)))
           ELSE /\ pending' = [active |-> TRUE, ticker |-> name,
                               args |-> args, sent_at |-> t]
                /\ ui' = ui

\* an event (tick or selector change) at time t asks for a rerun: it is
\* queued while a run is blocked in requests.get, else the run begins
RequestRerun(name, t) ==
    IF pending.active
    THEN /\ rerun_requested' = TRUE
         /\ UNCHANGED <<cache, net_log, pending, ui>>
    ELSE StartRun(cache, net_log, name, t)

\* the browser opens the page: the first run, selector at its default
PageLoad ==
    /\ ~Started
    /\ StartRun(cache, net_log, selected_coin_name, now)
    /\ UNCHANGED <<now, count, selected_coin_name, selects, passVars>>

\* st_autorefresh fires every REFRESH_INTERVAL seconds, increments its
\* counter and asks for a rerun
TimerTick ==
    /\ Started
    /\ count < MaxTicks
    /\ pending.active => TickDue <= pending.sent_at + MaxLatency
    /\ now' = TickDue
    /\ count' = count + 1
    /\ RequestRerun(selected_coin_name, now')
    /\ UNCHANGED <<selected_coin_name, selects, passVars>>

\* the tickers the user picks among
Picks == {"BTC", "ETH", "XRP"}

\* the refresh intervals, numbered by the counter's value, in which the
\* user touches the selector: the first, whose entry expires within the
\* ticks explored, one in mid-window, and those around the expiry of the
\* first entry
SelectIntervals == {0, 20, 39, 40}

\* the user changes the selectbox shortly before a tick: the widget takes
\* the new value and asks for a rerun
SelectCoin ==
    /\ Started
    /\ selects < MaxSelects
    /\ count \in SelectIntervals
    /\ \E name \in Picks \ {selected_coin_name}, d \in 1..MaxDelay :
          /\ \E i \in DOMAIN options : options[i] = name
          /\ TickDue - d >= now
          /\ pending.active => TickDue - d <= pending.sent_at + MaxLatency
          /\ now' = TickDue - d
          /\ selected_coin_name' = name
          /\ RequestRerun(name, now')
    /\ selects' = selects + 1
    /\ UNCHANGED <<count, passVars>>

\* requests.get of the blocked run returns at time t with response resp.
\* With a rerun queued, the run is stopped at its next st.* call: at the
\* st.error of line 38 when the fetch failed, so that the function raises
\* and nothing is memoized; at the exit of st.cache_data's spinner, after
\* the value was stored, when it succeeded.  The queued run then begins,
\* with the widgets as they are now.
GetReturns ==
    /\ pending.active
    /\ \E t \in now..Min(pending.sent_at + MaxLatency, TickDue),
          resp \in SessionResponses :
          LET fr     == fetch_result(resp)
              stored == /\ fr.exc = "none"
                        /\ ~(rerun_requested /\ fr.error_banners # <<>>)
              mem    == IF stored THEN Store(cache, pending.args, fr, t)
                        ELSE cache
              log    == Append(net_log,
                               Get(pending.args, pending.sent_at, t,
                                   fr.value, stored))
          IN  /\ now' = t
              /\ IF rerun_requested
                 THEN StartRun(mem, log, selected_coin_name, t)
                 ELSE /\ cache' = mem
                      /\ net_log' = log
                      /\ pending' = NoPending
                      /\ rerun_requested' = FALSE
                      /\ ui' = Completed(pending.ticker, pending.args, 1,
                                          pending.args, fr, t,
                                          pending.sent_at, t, ScriptPass(fr))
    /\ UNCHANGED <<count, selected_coin_name, selects, passVars>>

----------------------------------------------------------------------------
(* A single pass, stage by stage, over every kind of response *)

Timestamps == {1500, MS_PER_DAY + 250}
Volumes == {5, 7}

\* [timestamp, price] entries
PriceEntries ==
    (Timestamps \X {100}) \cup ({1500} \X {0, 32, 33, 110, 160, 183})

SeqsUpTo(S, n) == UNION {[1..k -> S] : k \in 0..n}

PriceLists  == SeqsUpTo(PriceEntries, MaxRows)
VolumeLists == SeqsUpTo({1500} \X Volumes, MaxRows)

Payloads ==
    {Payload({}, <<>>, <<>>), Payload({"market_caps"}, <<>>, <<>>)}
        \cup {Payload({"prices", "market_caps"}, ps, <<>>) : ps \in PriceLists}
        \cup {Payload({"total_volumes"}, <<>>, vs) : vs \in VolumeLists}
        \cup {Payload({"prices", "market_caps", "total_volumes"}, ps, vs) :
                ps \in PriceLists, vs \in VolumeLists}

\* statuses other than 200, on both sides of what raise_for_status raises
\* for (400 to 599)
OtherStatuses == {302, 399, 400, 404, 500, 599, 600}

\* no connection; any status with a body that does not parse; a status
\* other than 200 with a body that parses; 200 with every payload
Responses ==
    {Response(FALSE, 0, FALSE, None)}
        \cup {Response(TRUE, s, FALSE, None) : s \in {200} \cup OtherStatuses}
        \cup {Response(TRUE, s, TRUE, b) :
                s \in OtherStatuses, b \in {TwoRows, Payload({}, <<>>, <<>>)}}
        \cup {Response(TRUE, 200, TRUE, b) : b \in Payloads}

NotFetched ==
    [exc |-> "none", value |-> None, info_notices |-> 0,
     error_banners |-> <<>>]

\* the page once st.info of line 30 is written
NoticePage == Rendering("none", 0, FALSE, NoMetrics, 0, 0, <<>>, 1)

\* the call of line 85 stopped by a queued rerun: it gives the script
\* nothing
Interrupted ==
    [exc |-> "RerunException", value |-> None, info_notices |-> 1,
     error_banners |-> <<>>]

\* the memo a pass may find: nothing, or the entry an earlier run made of
\* the same response
Memos(resp) ==
    IF fetch_result(resp).exc = "none"
    THEN {{}, Store({}, fetch_args(options[default_index + 1]),
                    fetch_result(resp), 0)}
    ELSE {{}}

\* line 85, memo miss: the notice of line 30 is written and requests.get
\* of line 33 is sent; the run blocks until it returns
Send ==
    /\ stage = "request"
    /\ Lookup(cache, fetch_args(selected_coin_name), now) = {}
    /\ pending' = [active |-> TRUE, ticker |-> selected_coin_name,
                   args |-> fetch_args(selected_coin_name), sent_at |-> now]
    /\ view' = NoticePage
    /\ stage' = "blocked"
    /\ UNCHANGED <<now, count, selected_coin_name, cache, net_log, selects,
                   rerun_requested, ui, sample, fetched, df>>

\* line 85, memo hit: the stored value and page elements are replayed, no
\* GET is sent
Hit ==
    /\ stage = "request"
    /\ LET hits == Lookup(cache, fetch_args(selected_coin_name), now)
       IN  /\ hits # {}
           /\ LET e == CHOOSE e \in hits : TRUE
              IN  /\ fetched' = Replay(e)
                  /\ view' = FetcherPage(Replay(e))
    /\ stage' = "fetched"
    /\ UNCHANGED <<now, count, selected_coin_name, cache, net_log, selects,
                   pending, rerun_requested, ui, sample, df>>

\* an auto-refresh tick while the run is blocked in requests.get, which
\* has no timeout: the counter is incremented and a rerun is queued
TickDuringGet ==
    /\ stage = "blocked"
    /\ ~rerun_requested
    /\ count < MaxTicks
    /\ now' = TickDue
    /\ count' = count + 1
    /\ rerun_requested' = TRUE
    /\ UNCHANGED <<selected_coin_name, cache, net_log, selects, pending, ui,
                   passVars>>

\* requests.get returns: lines 34-39 and the memo's store of a returned
\* value.  With a rerun queued, the run is stopped at its next st.* call,
\* inside the call of line 85: at the st.error of line 38 when the fetch
\* failed, so that no banner is written and nothing is returned or
\* memoized; at the exit of st.cache_data's spinner when it succeeded,
\* after the value was stored.
Return ==
    /\ stage = "blocked"
    /\ LET fr      == fetch_result(sample)
           stopped == rerun_requested
           stored  == /\ fr.exc = "none"
                      /\ ~(stopped /\ fr.error_banners # <<>>)
       IN  /\ fetched' = IF stopped THEN Interrupted ELSE fr
           /\ net_log' = Append(net_log,
                                Get(pending.args, pending.sent_at, now,
                                    fr.value, stored))
           /\ cache' = IF stored THEN Store(cache, pending.args, fr, now)
                       ELSE cache
           /\ view' = IF stopped THEN view ELSE FetcherPage(fr)
           /\ stage' = IF stopped THEN "interrupted" ELSE "fetched"
    /\ pending' = NoPending
    /\ UNCHANGED <<now, count, selected_coin_name, selects, rerun_requested,
                   ui, sample, df>>

\* process_data applied to the fetcher's result, None included
Process ==
    /\ stage = "fetched"
    /\ fetched.exc = "none"
    /\ df' = process_data(fetched.value)
    /\ stage' = "processed"
    /\ UNCHANGED <<sample, fetched, view, cache, net_log, appVars>>

\* lines 87-178
Render ==
    /\ stage = IF fetched.exc = "none" THEN "processed" ELSE "fetched"
    /\ view' = ScriptPass(fetched)
    /\ stage' = "rendered"
    /\ UNCHANGED <<sample, fetched, df, cache, net_log, appVars>>

----------------------------------------------------------------------------
(* Specifications *)

InitSession ==
    /\ now = 0
    /\ count = 0
    /\ selected_coin_name = options[default_index + 1]
    /\ net_log = <<>>
    /\ selects = 0
    /\ pending = NoPending
    /\ rerun_requested = FALSE
    /\ ui = NotRun

InitPass ==
    /\ stage = "request"
    /\ fetched = NotFetched
    /\ df = EmptyFrame
    /\ view = Blank

\* the dashboard session: page load, timer ticks, selector changes, and
\* the returns of the GETs
Init ==
    /\ InitSession
    /\ InitPass
    /\ cache = {}
    /\ sample = Response(FALSE, 0, FALSE, None)

Next == PageLoad \/ TimerTick \/ SelectCoin \/ GetReturns

Spec == Init /\ [][Next]_vars

\* one pass over each response, on an empty memo or on one that holds the
\* response's outcome, with or without a tick during the GET
InitPipeline ==
    /\ InitSession
    /\ InitPass
    /\ sample \in Responses
    /\ cache \in Memos(sample)

NextPipeline == Send \/ Hit \/ TickDuringGet \/ Return \/ Process \/ Render

SpecPipeline == InitPipeline /\ [][NextPipeline]_vars

----------------------------------------------------------------------------
(* Properties *)

\* the GETs of net_log issued for the same (coin identifier, days) pair
SameCall(g, h) == g.coin_id = h.coin_id /\ g.days = h.days

\* a response that is a fetch failure: no connection, a non-2xx status, or
\* a body that is not JSON
FailedOutright(resp) ==
    \/ ~resp.connected
    \/ resp.status < 200
    \/ resp.status > 299
    \/ ~resp.parses

\* the call name is mapped to by the selector, with days = 60
MappedCall(name, args) ==
    /\ args[2] = 60
    /\ \E i \in DOMAIN COIN_ITEMS : COIN_ITEMS[i] = <<name, args[1]>>
    /\ name = "ETH" => args[1] = "ethereum"
    /\ name = "XRP" => args[1] = "ripple"
    /\ name = "BTC" => args[1] = "bitcoin"

\* C1: for a fixed (coin identifier, days) pair, the calls that fall in one
\* time-to-live window (the 600 seconds from the moment a GET's result was
\* memoized) issue no further network GET: no later GET for the pair is
\* sent before the window ends, whether it has returned or is still in
\* flight, and a later run that begins within the window makes no network
\* call and gets the memoized payload.
C1_OneGetPerWindow ==
    /\ \A i, j \in DOMAIN net_log :
          (i < j /\ SameCall(net_log[i], net_log[j]) /\ net_log[i].stored)
              => net_log[j].sent_at >= net_log[i].at + TTL
    /\ \A i \in DOMAIN net_log :
          ( /\ pending.active
            /\ net_log[i].stored
            /\ net_log[i].coin_id = pending.args[1]
            /\ net_log[i].days = pending.args[2] )
              => pending.sent_at >= net_log[i].at + TTL
    /\ \A i \in DOMAIN net_log :
          ( /\ ui.ran
            /\ net_log[i].stored
            /\ net_log[i].coin_id = ui.called[1]
            /\ net_log[i].days = ui.called[2]
            /\ ui.started_at > net_log[i].sent_at
            /\ ui.started_at >= net_log[i].at
            /\ ui.started_at < net_log[i].at + TTL )
              => (ui.network_calls = 0 /\ ui.raw_data = net_log[i].value)

\* C1 witness: a window has ended with a second GET for the same pair, and
\* the last run was served from the memo some time after the entry was
\* made
C1_Witness ==
    /\ \E i, j \in DOMAIN net_log :
          i < j /\ SameCall(net_log[i], net_log[j]) /\ net_log[i].stored
    /\ ui.ran
    /\ ui.network_calls = 0
    /\ ui.started_at > ui.fetched_at

\* C2: after a run whose fetch failed (fetch_crypto_data returned None),
\* the next timer tick with the same selection sends a new network GET.
C2_RetryOnNextTick ==
    [][ ( /\ ~pending.active
          /\ ui.ran
          /\ ui.raw_data = None
          /\ ui.ticker = selected_coin_name
          /\ count' = count + 1
          /\ selected_coin_name' = selected_coin_name )
            => pending'.active ]_vars

\* a response on which the fetcher gives up: no connection, a status that
\* raise_for_status raises for, or a body that is not JSON
FailedFetch(resp) ==
    \/ ~resp.connected
    \/ (resp.status >= 400 /\ resp.status <= 599)
    \/ ~resp.parses

\* C3 as stated: a pass whose fetch fails outright (no connection, non-2xx
\* status, unparsable body) has, when it ends, taken the error-banner
\* path and rendered no chart, no metrics and no warning banner.
C3_FailedFetchErrorBannerOnly ==
    (stage \in {"rendered", "interrupted"} /\ FailedOutright(sample))
        => /\ view.exc = "none"
           /\ \E i \in DOMAIN view.error_banners :
                 view.error_banners[i] = ERR_FAILED
           /\ view.charts = 0
           /\ ~view.metrics.shown
           /\ ~view.metrics_reached
           /\ view.warning_banners = 0

\* C3 amended: a pass whose fetch fails (no connection, a 4xx or 5xx
\* status, unparsable body) and that runs to its end takes the
\* error-banner path: the main logic renders its error banner after the
\* fetcher's own notice and report, and no chart, no metrics and no
\* warning banner; no exception escapes.  A pass that a rerun queued
\* during the GET stops has rendered the notice only, no chart, no metrics
\* and no banner, and has memoized nothing.
C3_FailedFetchOf4xx5xx ==
    /\ (stage = "rendered" /\ FailedFetch(sample))
          => /\ view.exc = "none"
             /\ view.error_banners = <<ERR_FETCHING, ERR_FAILED>>
             /\ view.info_notices = 1
             /\ view.charts = 0
             /\ ~view.metrics.shown
             /\ ~view.metrics_reached
             /\ view.warning_banners = 0
    /\ (stage = "interrupted" /\ FailedFetch(sample))
          => /\ view = NoticePage
             /\ cache = {}
             /\ ~net_log[Len(net_log)].stored

\* C3 witness: an HTTP 500 response was rendered on the error-banner path
C3_Witness ==
    /\ stage = "rendered"
    /\ sample.connected
    /\ sample.status = 500
    /\ view.error_banners = <<ERR_FETCHING, ERR_FAILED>>
    /\ view.charts = 0

\* C4: a pass whose fetch succeeded with a payload that has a data-shape
\* problem (an empty object, an empty prices list, a missing prices or
\* total_volumes key) renders the one warning banner, no chart and no error
\* banner, and raises nothing.
C4_ShapeProblemWarningOnly ==
    ( /\ stage = "rendered"
      /\ ~FailedOutright(sample)
      /\ \/ sample.body.keys = {}
         \/ "prices" \notin sample.body.keys
         \/ "total_volumes" \notin sample.body.keys
         \/ sample.body.prices = <<>> )
        => /\ view.exc = "none"
           /\ view.warning_banners = 1
           /\ view.charts = 0
           /\ view.error_banners = <<>>

\* C5: for a payload whose prices and total_volumes have the same length
\* N >= 1, process_data returns exactly N rows in input order, row i with
\* the timestamp and price of prices[i] and the volume of total_volumes[i].
C5_RowsMatchInput ==
    ( /\ stage = "processed"
      /\ ~fetched.value.none
      /\ {"prices", "total_volumes"} \subseteq fetched.value.keys
      /\ Len(fetched.value.prices) >= 1
      /\ Len(fetched.value.prices) = Len(fetched.value.total_volumes) )
        => /\ df.exc = "none"
           /\ Len(df.rows) = Len(fetched.value.prices)
           /\ \A i \in 1..Len(fetched.value.prices) :
                 /\ df.rows[i].timestamp = Num(fetched.value.prices[i][1])
                 /\ df.rows[i].price = Num(fetched.value.prices[i][2])
                 /\ df.rows[i].volume = fetched.value.total_volumes[i][2]

\* C5 witness: three aligned pairs with a repeated and a descending
\* timestamp were turned into three rows
C5_Witness ==
    /\ stage = "processed"
    /\ Len(fetched.value.prices) = 3
    /\ Len(fetched.value.total_volumes) = 3
    /\ fetched.value.prices[1][1] > fetched.value.prices[2][1]
    /\ fetched.value.prices[2][1] = fetched.value.prices[3][1]
    /\ fetched.value.total_volumes[1][2] # fetched.value.total_volumes[2][2]
    /\ Len(df.rows) = 3

\* C6: for an absent payload (None) or an empty one ({} or empty lists),
\* process_data returns a table with zero rows and raises nothing.
C6_AbsentOrEmptyGivesNoRows ==
    ( /\ stage = "processed"
      /\ \/ fetched.value.none
         \/ fetched.value.keys = {}
         \/ ( /\ {"prices", "total_volumes"} \subseteq fetched.value.keys
              /\ fetched.value.prices = <<>>
              /\ fetched.value.total_volumes = <<>> ) )
        => (df.exc = "none" /\ Len(df.rows) = 0)

\* C6 witness: process_data was applied to None
C6_Witness ==
    /\ stage = "processed"
    /\ fetched.value = None
    /\ df.exc = "none"
    /\ df.rows = <<>>

\* C7: the metrics code that reads the second-to-last price is reached
\* only with a table of at least 2 rows.
C7_MetricsNeedTwoRows ==
    (stage = "rendered" /\ view.metrics_reached) => view.rows >= 2

\* C8: for a table with at least 2 rows and a non-zero second-to-last
\* price, latest = last row's price, previous = second-to-last row's price,
\* change = latest - previous, percentage = change / previous * 100 (the
\* two decimals shown are within half a hundredth of it), and the row count
\* shown is the number of rows; rows priced [100, 110] give 110, 100, 10
\* and 10.00 %.
C8_MetricsSnapshot ==
    ( /\ stage = "rendered"
      /\ df.exc = "none"
      /\ Len(df.rows) >= 2
      /\ \A i \in DOMAIN df.rows : ~df.rows[i].price.nan
      /\ df.rows[Len(df.rows) - 1].price.v # 0 )
        => LET n    == Len(df.rows)
               last == df.rows[n].price
               prev == df.rows[n - 1].price
               m    == view.metrics
           IN  /\ view.exc = "none"
               /\ m.shown
               /\ m.latest_price = last
               /\ m.prev_price = prev
               /\ m.price_change = Num(last.v - prev.v)
               /\ m.price_change_pct.cls = "finite"
               /\ 2 * Abs(m.price_change_pct.hundredths * prev.v
                            - (last.v - prev.v) * 10000) <= Abs(prev.v)
               /\ m.points = n
               /\ (prev.v = 100 /\ last.v = 110)
                     => /\ m.latest_price = Num(110)
                        /\ m.prev_price = Num(100)
                        /\ m.price_change = Num(10)
                        /\ m.price_change_pct.hundredths = 1000

\* C8 witness: a three-row table priced 183, 100, 110 was rendered with a
\* change of 10 and 10.00 %
C8_Witness ==
    /\ stage = "rendered"
    /\ Len(df.rows) = 3
    /\ df.rows[1].price = Num(183)
    /\ df.rows[2].price = Num(100)
    /\ df.rows[3].price = Num(110)
    /\ view.metrics.price_change = Num(10)
    /\ view.metrics.price_change_pct.hundredths = 1000

\* C9: every run calls the fetch with the identifier the selector maps its
\* ticker to and with days = 60: "ETH" gives "ethereum", "XRP" gives
\* "ripple", and with no selection made the ticker is "BTC", giving
\* "bitcoin"; the ticker is the selector's value (a run blocked in its GET
\* when the selector changes is the one exception, and a rerun is queued
\* behind it); every GET sent is for such an identifier.
C9_FetchCalledWithMappedId ==
    /\ ui.ran => MappedCall(ui.ticker, ui.called)
    /\ pending.active => MappedCall(pending.ticker, pending.args)
    /\ (pending.active /\ ~rerun_requested)
          => pending.ticker = selected_coin_name
    /\ (ui.ran /\ ~pending.active) => ui.ticker = selected_coin_name
    /\ selects = 0 => selected_coin_name = "BTC"
    /\ \A i \in DOMAIN net_log :
          /\ net_log[i].days = 60
          /\ \E k \in DOMAIN COIN_ITEMS :
                COIN_ITEMS[k][2] = net_log[i].coin_id

\* C9 witness: "XRP" was selected and the run's GET went out for "ripple"
C9_Witness ==
    /\ ui.ran
    /\ selected_coin_name = "XRP"
    /\ ui.ticker = "XRP"
    /\ ui.network_calls = 1
    /\ net_log[Len(net_log)].coin_id = "ripple"

\* C10: the payload a run displays comes from a network GET made for the
\* run's coin identifier (the selected coin's, once no run is in flight)
\* with days = 60, whose result was memoized no more than 600 seconds
\* before the run ended and less than 600 seconds before it began: the
\* entry served has the run's own key, and it is the latest one memoized
\* for that key.
C10_DisplayedPayloadIsFreshAndOwn ==
    (ui.ran /\ ~ui.raw_data.none) =>
        /\ ui.served_key = <<COIN_MAP[ui.ticker], 60>>
        /\ ~pending.active => ui.ticker = selected_coin_name
        /\ \E i \in DOMAIN net_log :
              /\ net_log[i].coin_id = COIN_MAP[ui.ticker]
              /\ net_log[i].days = 60
              /\ net_log[i].stored
              /\ net_log[i].value = ui.raw_data
              /\ net_log[i].at = ui.fetched_at
              /\ ui.finished_at - net_log[i].at >= 0
              /\ ui.finished_at - net_log[i].at <= 600
              /\ ui.started_at - net_log[i].at < 600
              /\ \A j \in DOMAIN net_log :
                    ( /\ j > i
                      /\ SameCall(net_log[i], net_log[j])
                      /\ net_log[j].stored
                      /\ net_log[j].at <= ui.finished_at ) => FALSE

\* C10 witness: after a selection change, the new coin's entry expired and
\* the run displays the payload of a second GET for it, GETs for another
\* coin having been made before
C10_Witness ==
    /\ ui.ran
    /\ selects = 1
    /\ ~ui.raw_data.none
    /\ ui.network_calls = 1
    /\ \E i \in DOMAIN net_log :
          /\ net_log[i].coin_id = ui.called[1]
          /\ net_log[i].stored
          /\ net_log[i].at < ui.started_at
    /\ \E i \in DOMAIN net_log : net_log[i].coin_id # ui.called[1]

====
